---- MODULE Spec2Model ----
(***************************************************************************)
(* Model of the calculator of src/main.rs: the tokenizer (tokenize), the   *)
(* recursive-descent parser/evaluator (Parser) and the read-eval loop      *)
(* (main).                                                                 *)
(*                                                                         *)
(* Text is a sequence of one-character strings.  The parser's recursion is *)
(* an explicit stack of frames, one action per stretch of code between two *)
(* calls.  A float is a rational n/d in lowest terms (see the Values       *)
(* section); what the model does not follow exactly is Untracked.          *)
(***************************************************************************)
EXTENDS Integers, Sequences, FiniteSets, TLC

VARIABLES
    pc,       \* where main is: "read", "tokenize", "check", "parse",
              \* "returned", "panicked", "choice", "exit", "crashed"
    line,     \* the line read from stdin (main.rs:179)
    expr,     \* the text given to tokenize (main.rs:180)
    chars,    \* number of characters the peekable iterator has consumed
    tokens,   \* the tokens vector (tokenize's local, then Parser.tokens)
    pos,      \* Parser.pos, 0-based as in the source
    stack,    \* call stack of the parser: frames of expr/term/factor/unary/primary
    ret,      \* value returned by the call that has just returned
    result    \* what main printed for the line ("Result: ..."), or NoResult

vars == <<pc, line, expr, chars, tokens, pos, stack, ret, result>>

-----------------------------------------------------------------------------
(* Bounds of the model *)

\* every line of at most MaxLen characters over Alphabet is an input
MaxLen == 3
\* operand (operator operand)^k for k <= MaxOps is an input
MaxOps == 2
\* a chain of at most MaxSigns unary signs before a digit is an input
MaxSigns == 3
\* numerators and denominators beyond ExactLimit are not followed
ExactLimit == 30000
\* every text of at most MaxNestLen characters over NestAlphabet is an input
MaxNestLen == 5

-----------------------------------------------------------------------------
(* Values: f64 *)

\* A value [n, d, exact]: with d > 0 the float is the rational n/d (gcd 1),
\* exactly when exact, else up to the rounding of an inexact literal or
\* operation.  d = 0 is a float the model does not follow: too large for
\* ExactLimit, an infinity, a NaN, or an irrational power.  Zero stands for
\* both +0.0 and -0.0, so a division by zero is not followed.
Untracked == [n |-> 0, d |-> 0, exact |-> FALSE]

Tracked(v) == v.d > 0

Abs(x) == IF x < 0 THEN -x ELSE x

RECURSIVE Gcd(_, _)
Gcd(a, b) == IF b = 0 THEN a ELSE Gcd(b, a % b)

RECURSIVE IsPow2(_)
IsPow2(d) == IF d = 1 THEN TRUE ELSE IF d % 2 = 0 THEN IsPow2(d \div 2) ELSE FALSE

\* n/d (d > 0) in lowest terms; exact only if a double holds it exactly
Norm(n, d, exact) ==
    LET g == Gcd(Abs(n), d)
        nn == n \div g
        dd == d \div g
    IN  IF Abs(nn) > ExactLimit \/ dd > ExactLimit
        THEN Untracked
        ELSE [n |-> nn, d |-> dd, exact |-> exact /\ IsPow2(dd)]

IntVal(k) == Norm(k, 1, TRUE)

AddF(a, b) ==
    IF Tracked(a) /\ Tracked(b)
    THEN Norm(a.n * b.d + b.n * a.d, a.d * b.d, a.exact /\ b.exact)
    ELSE Untracked

SubF(a, b) ==
    IF Tracked(a) /\ Tracked(b)
    THEN Norm(a.n * b.d - b.n * a.d, a.d * b.d, a.exact /\ b.exact)
    ELSE Untracked

MulF(a, b) ==
    IF Tracked(a) /\ Tracked(b)
    THEN Norm(a.n * b.n, a.d * b.d, a.exact /\ b.exact)
    ELSE Untracked

DivF(a, b) ==
    IF Tracked(a) /\ Tracked(b) /\ b.n # 0
    THEN IF b.n > 0
         THEN Norm(a.n * b.d, a.d * b.n, a.exact /\ b.exact)
         ELSE Norm(-(a.n * b.d), a.d * (-b.n), a.exact /\ b.exact)
    ELSE Untracked

\* acc * a^k by repeated multiplication; the product is bound to a value
\* (m) before the next round, so that it is computed once
RECURSIVE PowAcc(_, _, _)
PowAcc(acc, a, k) ==
    IF k = 0 \/ ~Tracked(acc) THEN acc
    ELSE CHOOSE r \in {PowAcc(m, a, k - 1) : m \in {MulF(acc, a)}} : TRUE

\* f64::powf for an integer exponent; any other exponent is not followed
PowF(a, b) ==
    IF ~(Tracked(a) /\ Tracked(b) /\ b.d = 1 /\ b.exact) THEN Untracked
    ELSE IF b.n = 0 THEN IntVal(1)
    ELSE IF a.n = 0 THEN (IF b.n > 0 THEN a ELSE Untracked)
    ELSE IF a.d = 1 /\ Abs(a.n) = 1
         THEN (IF a.n = 1 \/ b.n % 2 = 0 THEN IntVal(1) ELSE IntVal(-1))
    ELSE IF b.n > 0 THEN PowAcc(IntVal(1), a, b.n)
    ELSE DivF(IntVal(1), PowAcc(IntVal(1), a, -b.n))

-----------------------------------------------------------------------------
(* Tokens *)

NoValue == Untracked

Tok(t) == [type |-> t, value |-> NoValue]

Number(v) == [type |-> "Number", value |-> v]

Plus == Tok("Plus")
Minus == Tok("Minus")
Star == Tok("Star")
Slash == Tok("Slash")
Caret == Tok("Caret")
OpenParent == Tok("OpenParent")
CloseParent == Tok("CloseParent")
Eof == Tok("Eof")

-----------------------------------------------------------------------------
(* Characters *)

Digits == {"0", "1", "2", "3", "4", "5", "6", "7", "8", "9"}

is_ascii_digit(c) == c \in Digits

DigitVal(c) ==
    CASE c = "0" -> 0 [] c = "1" -> 1 [] c = "2" -> 2 [] c = "3" -> 3
      [] c = "4" -> 4 [] c = "5" -> 5 [] c = "6" -> 6 [] c = "7" -> 7
      [] c = "8" -> 8 [] c = "9" -> 9

IsWhitespace(c) == c \in {" ", "\t", "\n", "\r"}

\* str::trim: drop leading and trailing whitespace
RECURSIVE TrimStart(_)
TrimStart(s) ==
    IF s # <<>> /\ IsWhitespace(Head(s)) THEN TrimStart(Tail(s)) ELSE s

RECURSIVE TrimEnd(_)
TrimEnd(s) ==
    IF s # <<>> /\ IsWhitespace(s[Len(s)])
    THEN TrimEnd(SubSeq(s, 1, Len(s) - 1))
    ELSE s

Trim(s) == TrimEnd(TrimStart(s))

-----------------------------------------------------------------------------
(* tokenize: the numeric literal *)

\* The inner loop of main.rs:33-44 from 1-based index j on: the index just
\* past the run of digits with at most one '.'.
RECURSIVE NumberRunEnd(_, _, _)
NumberRunEnd(s, j, has_dot) ==
    IF j > Len(s) THEN j
    ELSE IF is_ascii_digit(s[j]) THEN NumberRunEnd(s, j + 1, has_dot)
    ELSE IF s[j] = "." /\ ~has_dot THEN NumberRunEnd(s, j + 1, TRUE)
    ELSE j

RECURSIVE DigitsValue(_)
DigitsValue(ds) ==
    IF ds = <<>> THEN 0
    ELSE 10 * DigitsValue(SubSeq(ds, 1, Len(ds) - 1)) + DigitVal(ds[Len(ds)])

RECURSIVE Pow10(_)
Pow10(k) == IF k = 0 THEN 1 ELSE 10 * Pow10(k - 1)

OnlyDigits(s) == SelectSeq(s, is_ascii_digit)

DotAt(s) == IF \E j \in 1..Len(s) : s[j] = "."
            THEN CHOOSE j \in 1..Len(s) : s[j] = "."
            ELSE Len(s) + 1

\* s.parse::<f64>() on a run of digits with at most one '.': Err when the
\* run has no digit (the text "."), else the decimal value
ParseOk(s) == OnlyDigits(s) # <<>>

ParseF64(s) ==
    LET fracLen == IF DotAt(s) > Len(s) THEN 0 ELSE Len(s) - DotAt(s)
    IN  IF Len(OnlyDigits(s)) > 8 THEN Untracked
        ELSE Norm(DigitsValue(OnlyDigits(s)), Pow10(fracLen), TRUE)

-----------------------------------------------------------------------------
(* tokenize: one iteration of the outer loop (main.rs:20-57) *)

\* mutant of prev_is_operand: CloseParent forgotten
prev_is_operand_number_only(last) == last.type = "Number"

prev_is_operand(last) == last.type \in {"Number", "CloseParent"}

curr_is_starting_operand(c) == c = "(" \/ is_ascii_digit(c) \/ c = "."

\* main.rs:21-27: the tokens after the implicit-multiplication check for c
WithImplicitStar(ts, c) ==
    IF ts # <<>> /\ prev_is_operand(ts[Len(ts)]) /\ curr_is_starting_operand(c)
    THEN Append(ts, Star)
    ELSE ts

IsOperatorChar(c) == c \in {"+", "-", "*", "/", "^", "(", ")"}

\* main.rs:47-53
OperatorToken(c) ==
    CASE c = "+" -> Plus [] c = "-" -> Minus [] c = "*" -> Star
      [] c = "/" -> Slash [] c = "^" -> Caret
      [] c = "(" -> OpenParent [] c = ")" -> CloseParent

\* mutant of PushEof: nothing pushed when no token was emitted
PushEofUnlessEmpty(ts) == IF ts = <<>> THEN ts ELSE Append(ts, Eof)

\* main.rs:58
PushEof(ts) == Append(ts, Eof)

\* One pass of `while let Some(&c) = chars.peek()`.  The unwrap of
\* main.rs:45 panics on a run without digits; tokenize is called outside
\* catch_unwind (main.rs:182), so the panic ends the process.
TokStep ==
    /\ pc = "tokenize"
    /\ chars < Len(expr)
    /\ LET c == expr[chars + 1]
           ts == WithImplicitStar(tokens, c)
           e == NumberRunEnd(expr, chars + 1, FALSE)
           s == SubSeq(expr, chars + 1, e - 1)
       IN  IF is_ascii_digit(c) \/ c = "."
           THEN IF ParseOk(s)
                THEN /\ tokens' = Append(ts, Number(ParseF64(s)))
                     /\ chars' = e - 1
                     /\ pc' = pc
                ELSE /\ tokens' = ts
                     /\ chars' = e - 1
                     /\ pc' = "crashed"
           ELSE IF IsOperatorChar(c)
           THEN /\ tokens' = Append(ts, OperatorToken(c))
                /\ chars' = chars + 1
                /\ pc' = pc
           ELSE /\ tokens' = ts
                /\ chars' = chars + 1
                /\ pc' = pc
    /\ UNCHANGED <<line, expr, pos, stack, ret, result>>

\* The loop ends: push Eof and return the tokens (main.rs:58-59)
TokEnd ==
    /\ pc = "tokenize"
    /\ chars = Len(expr)
    /\ tokens' = PushEof(tokens)
    /\ pc' = "check"
    /\ UNCHANGED <<line, expr, chars, pos, stack, ret, result>>

-----------------------------------------------------------------------------
(* Parser *)

Frame(f) == [fn |-> f, at |-> "start", left |-> NoValue, op |-> "", sign |-> 1]

\* Parser::new and the call parse -> expr (main.rs:68-70, 80-82)
parse == <<Frame("expr")>>

Top == stack[Len(stack)]

Pop == SubSeq(stack, 1, Len(stack) - 1)

\* Parser::curr indexes tokens[pos]: out of bounds it panics
InBounds == pos < Len(tokens)

curr == tokens[pos + 1]

\* mutant of consume: the cursor does not move
consume_stuck(p) == p

consume(p) == p + 1

DoCall(f, callee) ==
    /\ stack' = Append(Append(Pop, f), Frame(callee))
    /\ pc' = pc
    /\ ret' = ret

\* the root call returning is parser.parse() returning Ok(val)
DoReturn(v) ==
    /\ stack' = Pop
    /\ ret' = v
    /\ pc' = IF Len(stack) = 1 THEN "returned" ELSE "parse"

\* a panic unwinds to catch_unwind in main
DoPanic ==
    /\ stack' = <<>>
    /\ pc' = "panicked"
    /\ ret' = ret

Running(f) == pc = "parse" /\ stack # <<>> /\ Top.fn = f

\* mutant of ApplyAddSub: operands of '-' swapped
ApplyAddSubSwapped(op, left, right) ==
    IF op = "Plus" THEN AddF(left, right) ELSE SubF(right, left)

\* main.rs:93-97
ApplyAddSub(op, left, right) ==
    IF op = "Plus" THEN AddF(left, right) ELSE SubF(left, right)

\* main.rs:114-118
ApplyMulDiv(op, left, right) ==
    IF op = "Star" THEN MulF(left, right) ELSE DivF(left, right)

\* main.rs:131
ApplyPow(left, right) == PowF(left, right)

\* mutant of FlipSign: '+' flips the sign too
FlipSignAlways(sign, type) == -sign

\* main.rs:142-144
FlipSign(sign, type) == IF type = "Minus" THEN -sign ELSE sign

\* mutant of ApplySign: the sign is dropped
ApplySignDropped(sign, v) == v

\* main.rs:150
ApplySign(sign, v) == MulF(IntVal(sign), v)

\* expr: `let mut left = self.term()` (main.rs:85)
ExprStart ==
    /\ Running("expr") /\ Top.at = "start"
    /\ DoCall([Top EXCEPT !.at = "left"], "term")
    /\ UNCHANGED <<line, expr, chars, tokens, pos, result>>

\* expr: term has returned; one pass of the loop (main.rs:86-102)
ExprLoop ==
    /\ Running("expr") /\ Top.at \in {"left", "right"}
    /\ LET left == IF Top.at = "left" THEN ret
                   ELSE ApplyAddSub(Top.op, Top.left, ret)
       IN  IF ~InBounds
           THEN DoPanic /\ pos' = pos
           ELSE IF curr.type \in {"Plus", "Minus"}
           THEN /\ pos' = consume(pos)
                /\ DoCall([Top EXCEPT !.at = "right", !.left = left,
                                      !.op = curr.type], "term")
           ELSE DoReturn(left) /\ pos' = pos
    /\ UNCHANGED <<line, expr, chars, tokens, result>>

\* term: `let mut left = self.factor()` (main.rs:106)
TermStart ==
    /\ Running("term") /\ Top.at = "start"
    /\ DoCall([Top EXCEPT !.at = "left"], "factor")
    /\ UNCHANGED <<line, expr, chars, tokens, pos, result>>

\* term: factor has returned; one pass of the loop (main.rs:107-123)
TermLoop ==
    /\ Running("term") /\ Top.at \in {"left", "right"}
    /\ LET left == IF Top.at = "left" THEN ret
                   ELSE ApplyMulDiv(Top.op, Top.left, ret)
       IN  IF ~InBounds
           THEN DoPanic /\ pos' = pos
           ELSE IF curr.type \in {"Star", "Slash"}
           THEN /\ pos' = consume(pos)
                /\ DoCall([Top EXCEPT !.at = "right", !.left = left,
                                      !.op = curr.type], "factor")
           ELSE DoReturn(left) /\ pos' = pos
    /\ UNCHANGED <<line, expr, chars, tokens, result>>

\* factor: `let left = self.unary()` (main.rs:127)
FactorStart ==
    /\ Running("factor") /\ Top.at = "start"
    /\ DoCall([Top EXCEPT !.at = "left"], "unary")
    /\ UNCHANGED <<line, expr, chars, tokens, pos, result>>

\* factor: unary has returned; the test for Caret (main.rs:128-134)
FactorCaret ==
    /\ Running("factor") /\ Top.at = "left"
    /\ IF ~InBounds
       THEN DoPanic /\ pos' = pos
       ELSE IF curr.type = "Caret"
       THEN /\ pos' = consume(pos)
            /\ DoCall([Top EXCEPT !.at = "right", !.left = ret], "factor")
       ELSE DoReturn(ret) /\ pos' = pos
    /\ UNCHANGED <<line, expr, chars, tokens, result>>

\* factor: the right factor has returned (main.rs:131)
FactorPow ==
    /\ Running("factor") /\ Top.at = "right"
    /\ DoReturn(ApplyPow(Top.left, ret))
    /\ UNCHANGED <<line, expr, chars, tokens, pos, result>>

\* unary: one pass of the sign loop (main.rs:139-149), then the call of
\* primary (main.rs:150)
UnaryLoop ==
    /\ Running("unary") /\ Top.at = "start"
    /\ IF ~InBounds
       THEN DoPanic /\ pos' = pos
       ELSE IF curr.type \in {"Plus", "Minus"}
       THEN /\ pos' = consume(pos)
            /\ stack' = Append(Pop, [Top EXCEPT !.sign = FlipSign(Top.sign, curr.type)])
            /\ pc' = pc
            /\ ret' = ret
       ELSE DoCall([Top EXCEPT !.at = "prim"], "primary") /\ pos' = pos
    /\ UNCHANGED <<line, expr, chars, tokens, result>>

\* unary: primary has returned (main.rs:150)
UnaryReturn ==
    /\ Running("unary") /\ Top.at = "prim"
    /\ DoReturn(ApplySign(Top.sign, ret))
    /\ UNCHANGED <<line, expr, chars, tokens, pos, result>>

\* primary: the match on the current token (main.rs:154-169)
PrimaryStart ==
    /\ Running("primary") /\ Top.at = "start"
    /\ IF ~InBounds
       THEN DoPanic /\ pos' = pos
       ELSE IF curr.type = "Number"
       THEN DoReturn(curr.value) /\ pos' = consume(pos)
       ELSE IF curr.type = "OpenParent"
       THEN /\ pos' = consume(pos)
            /\ DoCall([Top EXCEPT !.at = "inner"], "expr")
       ELSE DoPanic /\ pos' = pos
    /\ UNCHANGED <<line, expr, chars, tokens, result>>

\* primary: the inner expr has returned; consume whatever token is there
\* (main.rs:163-164)
PrimaryClose ==
    /\ Running("primary") /\ Top.at = "inner"
    /\ pos' = consume(pos)
    /\ DoReturn(ret)
    /\ UNCHANGED <<line, expr, chars, tokens, result>>

ParserNext ==
    \/ ExprStart \/ ExprLoop
    \/ TermStart \/ TermLoop
    \/ FactorStart \/ FactorCaret \/ FactorPow
    \/ UnaryLoop \/ UnaryReturn
    \/ PrimaryStart \/ PrimaryClose

-----------------------------------------------------------------------------
(* Inputs *)

Alphabet == {"2", ".", "+", "-", "*", "/", "^", "(", ")", " ", "#"}

OperandChars == {"2", "3"}

BinaryChars == {"+", "-", "*", "/", "^"}

SignChars == {"+", "-"}

\* every text of at most MaxLen characters
ShortLines == UNION {[1..k -> Alphabet] : k \in 0..MaxLen}

\* every text of at most MaxNestLen characters over the nesting alphabet
NestAlphabet == {"2", "-", "(", ")"}

NestLines == UNION {[1..k -> NestAlphabet] : k \in 0..MaxNestLen}

\* operand (operator operand)^k, without parentheses or signs
RECURSIVE InfixOfOps(_)
InfixOfOps(k) ==
    IF k = 0 THEN {<<d>> : d \in OperandChars}
    ELSE {s \o <<o, d>> : s \in InfixOfOps(k - 1), o \in BinaryChars, d \in OperandChars}

InfixLines == UNION {InfixOfOps(k) : k \in 0..MaxOps}

\* a chain of signs before one digit
SignLines ==
    {ss \o <<d>> : ss \in UNION {[1..k -> SignChars] : k \in 0..MaxSigns},
                   d \in OperandChars}

\* -a^b
SignedPowLines == {<<"-", a, "^", b>> : a \in OperandChars, b \in OperandChars}

\* the expressions of the specification's testable properties
Ex_8m3m2 == <<"8", " ", "-", " ", "3", " ", "-", " ", "2">>
Ex_2p3t4 == <<"2", " ", "+", " ", "3", " ", "*", " ", "4">>
Ex_p2p3pt4 == <<"(", "2", " ", "+", " ", "3", ")", " ", "*", " ", "4">>
Ex_2c3c2 == <<"2", "^", "3", "^", "2">>
Ex_2p3p4 == <<"2", "(", "3", "+", "4", ")">>
Ex_p2pp3p == <<"(", "2", ")", "(", "3", ")">>
Ex_2s3 == <<"2", " ", "3">>
Ex_mm3 == <<"-", "-", "3">>
Ex_mpm3 == <<"-", "+", "-", "3">>
Ex_mmm3 == <<"-", "-", "-", "3">>
Ex_m3c2 == <<"-", "3", "^", "2">>
Ex_1dd2 == <<"1", ".", ".", "2">>
Ex_1dd == <<"1", ".", ".">>
Ex_2cp3 == <<"2", ")", "3">>
Ex_1d0 == <<"1", "/", "0">>

Examples ==
    {Ex_8m3m2, Ex_2p3t4, Ex_p2pp3p, Ex_p2p3pt4, Ex_2c3c2, Ex_2p3p4, Ex_2s3,
     Ex_mm3, Ex_mpm3, Ex_mmm3, Ex_m3c2, Ex_1dd2, Ex_1dd, Ex_2cp3, Ex_1d0}

Lines == ShortLines \cup NestLines \cup InfixLines \cup SignLines \cup SignedPowLines \cup Examples

\* answers to the prompt of main.rs:199-200, as read_line returns them
Choices == {<<"n", "\n">>, <<"N", "\n">>, <<"y", "\n">>, <<"\n">>}

-----------------------------------------------------------------------------
(* main *)

NoResult == <<>>

\* the state at the head of `loop` (main.rs:175): nothing is kept across lines
AtLoopHead ==
    /\ pc = "read"
    /\ line = <<>>
    /\ expr = <<>>
    /\ chars = 0
    /\ tokens = <<>>
    /\ pos = 0
    /\ stack = <<>>
    /\ ret = NoValue
    /\ result = NoResult

\* `continue`: the locals of the iteration are dropped
Continue ==
    /\ pc' = "read"
    /\ line' = <<>>
    /\ expr' = <<>>
    /\ chars' = 0
    /\ tokens' = <<>>
    /\ pos' = 0
    /\ stack' = <<>>
    /\ ret' = NoValue
    /\ result' = NoResult

\* main.rs:178-182: read a line, trim it, call tokenize
ReadLine ==
    /\ pc = "read"
    /\ \E l \in Lines :
        /\ line' = Append(l, "\n")
        /\ expr' = Trim(Append(l, "\n"))
    /\ pc' = "tokenize"
    /\ UNCHANGED <<chars, tokens, pos, stack, ret, result>>

\* main.rs:183
NothingToEvaluate(ts) == Len(ts) = 1 /\ ts[1].type = "Eof"

\* main.rs:183-188: skip an empty token sequence, else parse under catch_unwind
MainCheck ==
    /\ pc = "check"
    /\ IF NothingToEvaluate(tokens)
       THEN Continue
       ELSE /\ pc' = "parse"
            /\ pos' = 0
            /\ stack' = parse
            /\ UNCHANGED <<line, expr, chars, tokens, ret, result>>

\* main.rs:189, 195: Ok(val), print the result
MainPrint ==
    /\ pc = "returned"
    /\ result' = <<ret>>
    /\ pc' = "choice"
    /\ UNCHANGED <<line, expr, chars, tokens, pos, stack, ret>>

\* main.rs:190-192: Err(_), continue
MainCatch ==
    /\ pc = "panicked"
    /\ Continue

ToLower(c) == IF c = "N" THEN "n" ELSE c

\* main.rs:201
IsNo(choice) ==
    LET t == Trim(choice) IN [j \in 1..Len(t) |-> ToLower(t[j])] = <<"n">>

\* main.rs:199-203: the answer "n" ends the loop
MainChoice ==
    /\ pc = "choice"
    /\ \E choice \in Choices :
        IF IsNo(choice)
        THEN /\ pc' = "exit"
             /\ UNCHANGED <<line, expr, chars, tokens, pos, stack, ret, result>>
        ELSE Continue

-----------------------------------------------------------------------------
(* Specifications *)

Init == AtLoopHead

Next ==
    \/ ReadLine
    \/ TokStep
    \/ TokEnd
    \/ MainCheck
    \/ ParserNext
    \/ MainPrint
    \/ MainCatch
    \/ MainChoice

\* the program
Spec == Init /\ [][Next]_vars

\* the program; a parse that can take a step takes it (one thread, no
\* suspension points inside parse)
FairSpec == Spec /\ WF_vars(ParserNext)

\* tokenize alone, on every text (untrimmed)
TokInit ==
    /\ pc = "tokenize"
    /\ line \in Lines
    /\ expr = line
    /\ chars = 0
    /\ tokens = <<>>
    /\ pos = 0
    /\ stack = <<>>
    /\ ret = NoValue
    /\ result = NoResult

TokNext == TokStep \/ TokEnd

TokSpec == TokInit /\ [][TokNext]_vars

-----------------------------------------------------------------------------
(* Vocabulary of the properties *)

TokenizeReturned == pc = "check"

TokenizePanicked == pc = "crashed"

ParseReturned == pc = "returned"

ParsePanicked == pc = "panicked"

\* main has printed "Result: ..." for the line
Printed == pc = "choice"

Count(ts, t) == Cardinality({j \in 1..Len(ts) : ts[j].type = t})

\* no character of s produces a token
OnlySkipped(s) ==
    \A j \in 1..Len(s) : ~(is_ascii_digit(s[j]) \/ s[j] = "." \/ IsOperatorChar(s[j]))

HasDoubleDot(s) == \E j \in 1..Len(s) - 1 : s[j] = "." /\ s[j + 1] = "."

\* number of OpenParent tokens of ts that no later CloseParent matches
RECURSIVE OpenDepth(_, _)
OpenDepth(ts, depth) ==
    IF ts = <<>> THEN depth
    ELSE IF Head(ts).type = "OpenParent" THEN OpenDepth(Tail(ts), depth + 1)
    ELSE IF Head(ts).type = "CloseParent" /\ depth > 0 THEN OpenDepth(Tail(ts), depth - 1)
    ELSE OpenDepth(Tail(ts), depth)

HasUnmatchedOpen(ts) == OpenDepth(ts, 0) > 0

LastIndexIn(s, set) ==
    IF \E j \in 1..Len(s) : s[j] \in set
    THEN CHOOSE j \in 1..Len(s) :
            s[j] \in set /\ \A k \in (j + 1)..Len(s) : s[k] \notin set
    ELSE 0

\* The value of operand (operator operand)^k by the grammar of the
\* specification, splitting the text at its loosest operator: expr at the
\* last '+'/'-', term at the last '*'/'/', factor at the first '^'.
RECURSIVE RefFactor(_)
RefFactor(s) ==
    IF Len(s) = 1 THEN IntVal(DigitVal(s[1]))
    ELSE PowF(IntVal(DigitVal(s[1])), RefFactor(SubSeq(s, 3, Len(s))))

RECURSIVE RefTerm(_)
RefTerm(s) ==
    LET j == LastIndexIn(s, {"*", "/"})
    IN  IF j = 0 THEN RefFactor(s)
        ELSE IF s[j] = "*"
        THEN MulF(RefTerm(SubSeq(s, 1, j - 1)), RefFactor(SubSeq(s, j + 1, Len(s))))
        ELSE DivF(RefTerm(SubSeq(s, 1, j - 1)), RefFactor(SubSeq(s, j + 1, Len(s))))

RECURSIVE RefExpr(_)
RefExpr(s) ==
    LET j == LastIndexIn(s, {"+", "-"})
    IN  IF j = 0 THEN RefTerm(s)
        ELSE IF s[j] = "+"
        THEN AddF(RefExpr(SubSeq(s, 1, j - 1)), RefTerm(SubSeq(s, j + 1, Len(s))))
        ELSE SubF(RefExpr(SubSeq(s, 1, j - 1)), RefTerm(SubSeq(s, j + 1, Len(s))))

MinusCount(s) == Cardinality({j \in 1..Len(s) : s[j] = "-"})

\* grammar level of a parsing function, expr lowest
Rank(f) ==
    CASE f = "expr" -> 0 [] f = "term" -> 1 [] f = "factor" -> 2
      [] f = "unary" -> 3 [] f = "primary" -> 4

-----------------------------------------------------------------------------
(* Claims *)

\* C1: tokenize never fails: on every input text it returns a token
\* sequence and never panics, also when a numeric run is made only of '.'.
C1_TokenizeNeverFails == ~TokenizePanicked

\* C2: a line with two consecutive dots, such as "1..2", ends in a
\* recoverable failure: no numeric result is produced for it and the
\* process does not terminate.
C2_DoubleDotRecoverable ==
    HasDoubleDot(expr) => ~(TokenizePanicked \/ ParseReturned \/ Printed)

\* C3: whenever parse returns a value it has consumed the full sequence:
\* the cursor rests on the Eof token.
C3_ParseConsumesAll ==
    ParseReturned => (InBounds /\ curr.type = "Eof" /\ pos = Len(tokens) - 1)

\* C4: in every iteration of tokenize's loop a Star is inserted exactly when
\* the last emitted token is Number or CloseParent and the current character
\* is '(', a digit or '.'; "2(3+4)" prints 14, "(2)(3)" prints 6 and "2 3"
\* prints 6.
C4_ImplicitStar ==
    /\ [][(pc = "tokenize" /\ chars < Len(expr)) =>
            LET c == expr[chars + 1]
                inserted == /\ Len(tokens') > Len(tokens)
                            /\ tokens'[Len(tokens) + 1] = Star
                            /\ c # "*"
                expected == /\ tokens # <<>>
                            /\ tokens[Len(tokens)].type \in {"Number", "CloseParent"}
                            /\ c \in {"(", "."} \cup Digits
            IN  /\ inserted <=> expected
                /\ SubSeq(tokens', 1, Len(tokens)) = tokens]_vars
    /\ [](expr \in {Ex_2p3p4, Ex_p2pp3p, Ex_2s3} => ~(TokenizePanicked \/ ParsePanicked))
    /\ [](Printed /\ expr = Ex_2p3p4 => result = <<IntVal(14)>>)
    /\ [](Printed /\ expr = Ex_p2pp3p => result = <<IntVal(6)>>)
    /\ [](Printed /\ expr = Ex_2s3 => result = <<IntVal(6)>>)

C4_Witness ==
    /\ Printed
    /\ expr = Ex_2s3
    /\ tokens = <<Number(IntVal(2)), Star, Number(IntVal(3)), Eof>>
    /\ result = <<IntVal(6)>>

\* C5: for every expression operand (operator operand)^k the printed value
\* is the one the grammar gives: '+'/'-' fold left to right at the lowest
\* level, '*'/'/' fold left to right and bind tighter, '^' binds tightest
\* and groups to the right; "8 - 3 - 2" is 3, "2 + 3 * 4" is 14,
\* "(2 + 3) * 4" is 20 and "2^3^2" is 512.
C5_Grouping ==
    /\ expr \in InfixLines \cup {Ex_8m3m2, Ex_2p3t4, Ex_p2p3pt4, Ex_2c3c2} =>
            ~(TokenizePanicked \/ ParsePanicked)
    /\ Printed /\ expr \in InfixLines => result = <<RefExpr(expr)>>
    /\ Printed /\ expr = Ex_8m3m2 => result = <<IntVal(3)>>
    /\ Printed /\ expr = Ex_2p3t4 => result = <<IntVal(14)>>
    /\ Printed /\ expr = Ex_p2p3pt4 => result = <<IntVal(20)>>
    /\ Printed /\ expr = Ex_2c3c2 => result = <<IntVal(512)>>

C5_Witness ==
    /\ Printed
    /\ expr = <<"3", "-", "2", "*", "3">>
    /\ result = <<IntVal(-3)>>

\* C6 as stated: "-3^2" prints -9; for digits a and b, "-a^b" prints -(a^b).
C6_Original ==
    Printed /\ expr \in SignedPowLines \cup {Ex_m3c2} =>
        result = <<SubF(IntVal(0), PowF(IntVal(DigitVal(expr[2])), IntVal(DigitVal(expr[4]))))>>

\* C6 amended: "-3^2" prints 9; unary applies the sign to the primary before
\* factor applies '^', so for digits a and b "-a^b" prints (-a)^b.
C6_SignBindsTighter ==
    /\ expr \in SignedPowLines \cup {Ex_m3c2} => ~(TokenizePanicked \/ ParsePanicked)
    /\ Printed /\ expr \in SignedPowLines \cup {Ex_m3c2} =>
        result = <<PowF(IntVal(-DigitVal(expr[2])), IntVal(DigitVal(expr[4])))>>
    /\ Printed /\ expr = Ex_m3c2 => result = <<IntVal(9)>>

C6_Witness == Printed /\ expr = Ex_m3c2 /\ result = <<IntVal(9)>>

\* C7: for a chain of '+' and '-' before a digit, the printed value is the
\* digit negated exactly when the number of '-' is odd, and the cursor ends
\* just past the primary (on Eof); "--3" is 3, "-+-3" is 3, "---3" is -3.
C7_UnaryParity ==
    /\ expr \in SignLines => ~(TokenizePanicked \/ ParsePanicked)
    /\ (ParseReturned \/ Printed) /\ expr \in SignLines =>
        /\ ret = IntVal(IF MinusCount(expr) % 2 = 1
                        THEN -DigitVal(expr[Len(expr)])
                        ELSE DigitVal(expr[Len(expr)]))
        /\ pos = Len(expr)
    /\ Printed /\ expr \in SignLines => result = <<ret>>
    /\ Printed /\ expr = Ex_mm3 => result = <<IntVal(3)>>
    /\ Printed /\ expr = Ex_mpm3 => result = <<IntVal(3)>>
    /\ Printed /\ expr = Ex_mmm3 => result = <<IntVal(-3)>>

C7_Witness == Printed /\ expr = Ex_mpm3 /\ result = <<IntVal(3)>> /\ pos = 4

\* C8: every token sequence tokenize returns holds Eof exactly once, as its
\* last element; for a text of whitespace and unrecognized characters only
\* it is exactly <<Eof>>.
C8_EofOnceLast ==
    TokenizeReturned =>
        /\ Count(tokens, "Eof") = 1
        /\ tokens[Len(tokens)] = Eof
        /\ OnlySkipped(expr) => tokens = <<Eof>>

C8_Witness ==
    /\ TokenizeReturned
    /\ expr = <<" ", "#", " ">>
    /\ tokens = <<Eof>>

\* C9: every parse terminates, returning or panicking; the cursor never
\* decreases; a step that does not advance it is a return, a panic, or a
\* call of a function of a higher grammar level (towards primary), so every
\* loop iteration and every recursive call advances it; primary advances
\* the cursor by one when it goes on, and panics only at a token that is
\* neither Number nor OpenParent, without advancing.
C9_Terminates ==
    /\ (pc = "parse") ~> (ParseReturned \/ ParsePanicked)
    /\ [][pc = "parse" =>
            \/ pos' = pos + 1
            \/ /\ pos' = pos
               /\ \/ Len(stack') < Len(stack)
                  \/ /\ Len(stack') = Len(stack) + 1
                     /\ Rank(stack'[Len(stack')].fn) > Rank(Top.fn)]_vars
    /\ [][Running("primary") =>
            IF pc' = "panicked"
            THEN pos' = pos /\ Top.at = "start" /\ InBounds
                 /\ curr.type \notin {"Number", "OpenParent"}
            ELSE pos' = pos + 1]_vars

C9_Witness ==
    /\ ParsePanicked
    /\ expr = <<"(", "2", "-">>
    /\ pos = 3
    /\ tokens[pos + 1] = Eof

\* C10: for every token sequence of tokenize in which some '(' has no
\* matching ')', parse never returns a value.
C10_UnclosedNeverReturns ==
    HasUnmatchedOpen(tokens) => ~(ParseReturned \/ Printed)

====
